---- MODULE Spec2Model ----
(***************************************************************************)
(* Model of script.js: class Grid (cell storage) and class Game2048 (the   *)
(* session: board transition, tile spawning, animation callbacks, busy     *)
(* flag, score).  JavaScript arrays are functions from integer keys to     *)
(* values (0-based), objects live in a heap addressed by references.       *)
(***************************************************************************)
EXTENDS Integers, Sequences, FiniteSets, TLC

VARIABLES
    heap,        \* [grids: ref -> Grid object, arrays: ref -> Array object]
    grid,        \* this.grid: reference to the session's current Grid object
    score,       \* this.score
    highScore,   \* this.highScore
    isAnimating, \* this.isAnimating
    tiles,       \* this.tiles: the keys (positions) of the Map position -> tile element
    calls,       \* move() invocations suspended at an await, oldest first
    checks,      \* number of scheduled game-state checks (requestAnimationFrame, line 207)
    status,      \* outcome of the latest game-state check: "none", "playing", "over", "win"
    ret,         \* outcome of the latest call: what it returned or threw
    pre,         \* the session as it was when the latest transition was entered
    event,       \* the latest call of move() or callback that ran: [op, busy]
    nMoves,      \* number of move() invocations accepted so far
    nNewGames    \* number of new-game clicks so far

vars == <<heap, grid, score, highScore, isAnimating, tiles, calls, checks,
          status, ret, pre, event, nMoves, nNewGames>>

----------------------------------------------------------------------------
(* Bounds of the model *)

\* largest number of tiles on a sparse input board of the engine specification
MaxTiles == 2
\* largest number of perturbed cells on a dense input board
MaxHoles == 1
\* inputs taken in one behaviour of the session: move() invocations that
\* found the session idle, and new-game clicks
MaxInputs == 2

(* Program constants *)

\* new Grid(4)
GridSize == 4
\* the value a cell read from a missing array key yields (JavaScript undefined)
Undefined == -1
\* minSwipeDistance
minSwipeDistance == 50
\* the win value of line 210
WinValue == 2048

Directions == {"up", "down", "left", "right"}

----------------------------------------------------------------------------
(* JavaScript arrays *)

\* the length of an array: one more than its largest index key
ArrayLength(a) ==
    IF \A k \in DOMAIN a : k < 0 THEN 0
    ELSE 1 + CHOOSE k \in DOMAIN a : \A j \in DOMAIN a : j <= k

\* a[k]
ArrayGet(a, k) == IF k \in DOMAIN a THEN a[k] ELSE Undefined

\* a[k] = v: an index beyond the end extends the array, a negative key
\* becomes a property of the array object
ArrayPut(a, k, v) ==
    IF k \in DOMAIN a THEN [a EXCEPT ![k] = v] ELSE (k :> v) @@ a

\* [...a]: the elements 0 .. length-1, holes read as undefined
ArraySpread(a) == [k \in 0..(ArrayLength(a) - 1) |-> ArrayGet(a, k)]

\* Array(n).fill(0)
ArrayFill(n) == [k \in 0..(n - 1) |-> 0]

(* class Grid.  A Grid value is [size, cells]; in the heap the cells field  *)
(* is a reference to the array, in the operators below it is the array.    *)

getCell(g, row, col) == ArrayGet(g.cells, row * g.size + col)

setCell(g, row, col, value) ==
    [g EXCEPT !.cells = ArrayPut(g.cells, row * g.size + col, value)]

\* the indices of an array, ascending, as reduce visits them
Indices(a) == [i \in 1..ArrayLength(a) |-> i - 1]

\* Grid.getEmptyCells, lines 15-20: the indices of the cells that are 0
getEmptyCells(g) ==
    SelectSeq(Indices(g.cells), LAMBDA index : ArrayGet(g.cells, index) = 0)

----------------------------------------------------------------------------
(* Game2048.getTraversalOrder *)

\* the nested loops of lines 316-320: [row, col] pairs, row-major
RowMajor == [i \in 1..16 |-> <<(i - 1) \div 4, (i - 1) % 4>>]

\* Array.prototype.reverse
Reverse(s) == [i \in 1..Len(s) |-> s[Len(s) + 1 - i]]

\* faulty variant: the comparator orders the columns ascending
byColumnAsc(a, b) == a[2] - b[2]

\* the comparator of line 326
byColumnDesc(a, b) == b[2] - a[2]

\* faulty variant: an unstable sort, x is inserted before the elements that
\* compare equal to it
RECURSIVE InsertSortedUnstable(_, _)
InsertSortedUnstable(s, x) ==
    IF s = <<>> THEN <<x>>
    ELSE IF byColumnDesc(s[Len(s)], x) < 0
         THEN Append(s, x)
         ELSE Append(InsertSortedUnstable(SubSeq(s, 1, Len(s) - 1), x), s[Len(s)])

\* Array.prototype.sort with the comparator of line 326: a stable sort, so x is
\* inserted after every element that does not compare greater than it
RECURSIVE InsertSorted(_, _)
InsertSorted(s, x) ==
    IF s = <<>> THEN <<x>>
    ELSE IF byColumnDesc(s[Len(s)], x) <= 0
         THEN Append(s, x)
         ELSE Append(InsertSorted(SubSeq(s, 1, Len(s) - 1), x), s[Len(s)])

RECURSIVE SortByColumnDesc(_)
SortByColumnDesc(s) ==
    IF s = <<>> THEN <<>>
    ELSE InsertSorted(SortByColumnDesc(SubSeq(s, 1, Len(s) - 1)), s[Len(s)])

\* the orders of lines 323-327, computed once
DownOrder == Reverse(RowMajor)
RightOrder == SortByColumnDesc(RowMajor)

\* faulty variant: the order for down is not reversed
getTraversalOrderForward(direction) ==
    IF direction = "right" THEN RightOrder ELSE RowMajor

getTraversalOrder(direction) ==
    IF direction = "down" THEN DownOrder
    ELSE IF direction = "right" THEN RightOrder
    ELSE RowMajor

----------------------------------------------------------------------------
(* Game2048.calculateMoves *)

\* faulty variant: a token that is no key of the table yields a zero vector
vectorsOrZero(direction) ==
    CASE direction = "up" -> <<-1, 0>>
      [] direction = "down" -> <<1, 0>>
      [] direction = "left" -> <<0, -1>>
      [] direction = "right" -> <<0, 1>>
      [] OTHER -> <<0, 0>>

\* the table of lines 244-249; a token that is no key of it yields undefined,
\* written <<>>
vectors(direction) ==
    CASE direction = "up" -> <<-1, 0>>
      [] direction = "down" -> <<1, 0>>
      [] direction = "left" -> <<0, -1>>
      [] direction = "right" -> <<0, 1>>
      [] OTHER -> <<>>

\* faulty variant: the slide is recorded with source and destination swapped
slideRecordsSwapped(st, cur, nxt) ==
    LET currentValue == getCell(st.g, cur[1], cur[2])
    IN  [st EXCEPT
           !.g = setCell(setCell(st.g, nxt[1], nxt[2], currentValue), cur[1], cur[2], 0),
           !.moves = Append(st.moves,
                            [from |-> nxt[1] * 4 + nxt[2],
                             to |-> cur[1] * 4 + cur[2],
                             value |-> currentValue,
                             merge |-> FALSE])]

\* lines 275-282: the tile at cur slides into the empty cell nxt.
\* st = [g: the working Grid, moves, processed, score]
slide(st, cur, nxt) ==
    LET currentValue == getCell(st.g, cur[1], cur[2])
    IN  [st EXCEPT
           !.g = setCell(setCell(st.g, nxt[1], nxt[2], currentValue), cur[1], cur[2], 0),
           !.moves = Append(st.moves,
                            [from |-> cur[1] * 4 + cur[2],
                             to |-> nxt[1] * 4 + nxt[2],
                             value |-> currentValue,
                             merge |-> FALSE])]

\* faulty variant: a merge adds the value of one source tile to the score
mergeScoresSource(st, cur, nxt) ==
    LET currentValue == getCell(st.g, cur[1], cur[2])
    IN  [st EXCEPT
           !.g = setCell(setCell(st.g, nxt[1], nxt[2], currentValue * 2),
                         cur[1], cur[2], 0),
           !.moves = Append(st.moves,
                            [from |-> cur[1] * 4 + cur[2],
                             to |-> nxt[1] * 4 + nxt[2],
                             value |-> currentValue * 2,
                             merge |-> TRUE]),
           !.processed = st.processed \cup {nxt[1] * 4 + nxt[2]},
           !.score = st.score + currentValue]

\* faulty variant: the merging tile is not removed from its cell
mergeKeepsSource(st, cur, nxt) ==
    LET currentValue == getCell(st.g, cur[1], cur[2])
    IN  [st EXCEPT
           !.g = setCell(st.g, nxt[1], nxt[2], currentValue * 2),
           !.moves = Append(st.moves,
                            [from |-> cur[1] * 4 + cur[2],
                             to |-> nxt[1] * 4 + nxt[2],
                             value |-> currentValue * 2,
                             merge |-> TRUE]),
           !.processed = st.processed \cup {nxt[1] * 4 + nxt[2]},
           !.score = st.score + currentValue * 2]

\* lines 284-293: the tile at cur merges into the equal tile at nxt
merge(st, cur, nxt) ==
    LET currentValue == getCell(st.g, cur[1], cur[2])
    IN  [st EXCEPT
           !.g = setCell(setCell(st.g, nxt[1], nxt[2], currentValue * 2),
                         cur[1], cur[2], 0),
           !.moves = Append(st.moves,
                            [from |-> cur[1] * 4 + cur[2],
                             to |-> nxt[1] * 4 + nxt[2],
                             value |-> currentValue * 2,
                             merge |-> TRUE]),
           !.processed = st.processed \cup {nxt[1] * 4 + nxt[2]},
           !.score = st.score + currentValue * 2]

\* faulty variant: a tile merges into a tile that was merged in this transition
mergeableAgain(st, cur, nxt) ==
    getCell(st.g, nxt[1], nxt[2]) = getCell(st.g, cur[1], cur[2])

\* the condition of line 283
mergeable(st, cur, nxt) ==
    /\ getCell(st.g, nxt[1], nxt[2]) = getCell(st.g, cur[1], cur[2])
    /\ (nxt[1] * 4 + nxt[2]) \notin st.processed

\* the while loop of lines 267-303 for the tile at cur, probing nxt
RECURSIVE Probe(_, _, _, _)
Probe(st, cur, nxt, d) ==
    IF ~(nxt[1] >= 0 /\ nxt[1] < 4 /\ nxt[2] >= 0 /\ nxt[2] < 4) THEN st
    ELSE IF getCell(st.g, nxt[1], nxt[2]) = 0
         THEN Probe(slide(st, cur, nxt), nxt, <<nxt[1] + d[1], nxt[2] + d[2]>>, d)
         ELSE IF mergeable(st, cur, nxt)
              THEN merge(st, cur, nxt)
              ELSE st

\* one call of the forEach callback of lines 259-304
Visit(st, pos, d) ==
    IF getCell(st.g, pos[1], pos[2]) = 0 THEN st
    ELSE Probe(st, pos, <<pos[1] + d[1], pos[2] + d[2]>>, d)

\* traversalOrder.forEach from its i-th element
RECURSIVE ForEach(_, _, _, _)
ForEach(st, order, i, d) ==
    IF i > Len(order) THEN st
    ELSE ForEach(Visit(st, order[i], d), order, i + 1, d)

\* lines 251-304 on a working Grid g (the clone) with the session's score sc
Collapse(g, sc, direction) ==
    ForEach([g |-> g, moves |-> <<>>, processed |-> {}, score |-> sc],
            getTraversalOrder(direction), 1, vectors(direction))

----------------------------------------------------------------------------
(* The heap: Grid objects and the arrays their cells fields refer to *)

\* a fresh reference: the smallest one not in use
NewRef(used) ==
    CHOOSE r \in 1..(Cardinality(used) + 1) :
        r \notin used /\ \A q \in 1..(r - 1) : q \in used

\* the Grid value a reference denotes
Deref(h, g) == [size |-> h.grids[g].size, cells |-> h.arrays[h.grids[g].cells]]

\* new Grid(size), lines 2-5: [heap, ref]
newGrid(h, size) ==
    LET g == NewRef(DOMAIN h.grids)
        a == NewRef(DOMAIN h.arrays)
    IN  [heap |-> [grids |-> (g :> [size |-> size, cells |-> a]) @@ h.grids,
                   arrays |-> (a :> ArrayFill(size * size)) @@ h.arrays],
         ref |-> g]

\* faulty variant: the new Grid refers to the array of the old one
cloneSharesCells(h, g) ==
    LET n == newGrid(h, h.grids[g].size)
    IN  [heap |-> [grids |-> [n.heap.grids EXCEPT ![n.ref].cells = h.grids[g].cells],
                   arrays |-> n.heap.arrays],
         ref |-> n.ref]

\* Grid.clone, lines 22-26: [heap, ref]
clone(h, g) ==
    LET n == newGrid(h, h.grids[g].size)
        a == NewRef(DOMAIN n.heap.arrays)
    IN  [heap |-> [grids |-> [n.heap.grids EXCEPT ![n.ref].cells = a],
                   arrays |-> (a :> ArraySpread(h.arrays[h.grids[g].cells]))
                              @@ n.heap.arrays],
         ref |-> n.ref]

\* what the garbage collector leaves: the Grid objects in roots and their arrays
Collect(h, roots) ==
    LET live == {h.grids[g].cells : g \in roots}
    IN  [grids |-> [g \in roots |-> h.grids[g]],
         arrays |-> [a \in live |-> h.arrays[a]]]

----------------------------------------------------------------------------
(* class Game2048: methods as operators on the object                     *)
(* s = [heap, grid, score, highScore, tiles]                              *)

This == [heap |-> heap, grid |-> grid, score |-> score,
         highScore |-> highScore, tiles |-> tiles]

\* the cells of the session's board
Cells(s) == s.heap.arrays[s.heap.grids[s.grid].cells]

\* faulty variant: the high score follows the score without the comparison
updateScoreAlways(s) == [s EXCEPT !.highScore = s.score]

\* Game2048.updateScore, lines 382-389
updateScore(s) ==
    IF s.score > s.highScore THEN [s EXCEPT !.highScore = s.score] ELSE s

\* faulty variant: the working grid becomes the board whether or not a move was recorded
calculateMovesAlwaysCommits(s, direction) ==
    IF vectors(direction) = <<>>
    THEN [session |-> s, moves |-> <<>>, threw |-> TRUE]
    ELSE LET c == clone(s.heap, s.grid)
             st == Collapse(Deref(c.heap, c.ref), s.score, direction)
             h == [c.heap EXCEPT !.arrays[c.heap.grids[c.ref].cells] = st.g.cells]
         IN  [session |-> updateScore([s EXCEPT !.heap = h, !.score = st.score,
                                                !.grid = c.ref]),
              moves |-> st.moves,
              threw |-> FALSE]

\* Game2048.calculateMoves, lines 243-312: the session after the call, with
\* the returned moves, or threw when line 250 destructures undefined
calculateMoves(s, direction) ==
    IF vectors(direction) = <<>>
    THEN [session |-> s, moves |-> <<>>, threw |-> TRUE]
    ELSE LET c == clone(s.heap, s.grid)
             st == Collapse(Deref(c.heap, c.ref), s.score, direction)
             h == [c.heap EXCEPT !.arrays[c.heap.grids[c.ref].cells] = st.g.cells]
             s1 == [s EXCEPT !.heap = h, !.score = st.score]
         IN  [session |-> IF Len(st.moves) > 0
                          THEN updateScore([s1 EXCEPT !.grid = c.ref])
                          ELSE s1,
              moves |-> st.moves,
              threw |-> FALSE]

\* faulty variant: every full board is a lost game
isGameOverWhenFull(s) ==
    Len(getEmptyCells(Deref(s.heap, s.grid))) = 0

\* faulty variant: the empty cells are not looked at
isGameOverIgnoresEmpty(s) ==
    LET g == Deref(s.heap, s.grid)
    IN  ~ \E row \in 0..3, col \in 0..3 :
            LET current == getCell(g, row, col)
            IN  \/ (col < 3 /\ current = getCell(g, row, col + 1))
                \/ (row < 3 /\ current = getCell(g, row + 1, col))

\* Game2048.isGameOver, lines 406-422
isGameOver(s) ==
    LET g == Deref(s.heap, s.grid)
    IN  IF Len(getEmptyCells(g)) > 0 THEN FALSE
        ELSE ~ \E row \in 0..3, col \in 0..3 :
                 LET current == getCell(g, row, col)
                 IN  \/ (col < 3 /\ current = getCell(g, row, col + 1))
                     \/ (row < 3 /\ current = getCell(g, row + 1, col))

\* faulty variant: the rarer tile is a 6
addNewTileSix(s, r) ==
    LET emptyCells == getEmptyCells(Deref(s.heap, s.grid))
    IN  IF Len(emptyCells) = 0 THEN s
        ELSE LET position == emptyCells[((r[1] * Len(emptyCells)) \div 100) + 1]
                 value == IF r[2] < 90 THEN 2 ELSE 6
                 a == s.heap.grids[s.grid].cells
             IN  [s EXCEPT !.heap.arrays[a] = ArrayPut(s.heap.arrays[a], position, value),
                           !.tiles = s.tiles \cup {position}]

\* Game2048.addNewTile, lines 179-189; r[1] and r[2] are the two results of
\* Math.random(), in hundredths
addNewTile(s, r) ==
    LET emptyCells == getEmptyCells(Deref(s.heap, s.grid))
    IN  IF Len(emptyCells) = 0 THEN s
        ELSE LET position == emptyCells[((r[1] * Len(emptyCells)) \div 100) + 1]
                 value == IF r[2] < 90 THEN 2 ELSE 4
                 a == s.heap.grids[s.grid].cells
             IN  [s EXCEPT !.heap.arrays[a] = ArrayPut(s.heap.arrays[a], position, value),
                           !.tiles = s.tiles \cup {position}]

\* Game2048.init, lines 96-103; r[1] and r[2] are the Math.random() results of
\* the two spawns
init(s, r) ==
    LET n == newGrid(s.heap, 4)
        s1 == updateScore([s EXCEPT !.heap = n.heap, !.grid = n.ref, !.score = 0])
        s2 == [s1 EXCEPT !.tiles = {}]
    IN  addNewTile(addNewTile(s2, r[1]), r[2])

\* Game2048.animateMoves, lines 336-348: the moves whose source position has
\* a tile element in the Map when the animation is requested
tileUpdates(moves, map) == SelectSeq(moves, LAMBDA move : move.from \in map)

\* Game2048.animateMoves, lines 354-374: the Map after the animation frame
\* has gone through the updates from the i-th on
RECURSIVE applyUpdates(_, _, _)
applyUpdates(map, updates, i) ==
    IF i > Len(updates) THEN map
    ELSE LET move == updates[i]
             set == IF move.merge THEN map ELSE map \cup {move.to}
         IN  applyUpdates(set \ {move.from}, updates, i + 1)

\* faulty variant: move() never returns at once
moveNeverBusy(animating) == FALSE

\* line 193: move() returns at once while a move is animating
moveBusy(animating) == animating

\* line 79: the touchend handler returns at once while a move is animating
touchBusy(animating) == animating

\* lines 84-92: the direction of a swipe, "" when it is too short
swipeDirection(deltaX, deltaY) ==
    LET absX == IF deltaX < 0 THEN -deltaX ELSE deltaX
        absY == IF deltaY < 0 THEN -deltaY ELSE deltaY
    IN  IF absX > absY
        THEN IF absX > minSwipeDistance
             THEN (IF deltaX > 0 THEN "right" ELSE "left")
             ELSE ""
        ELSE IF absY > minSwipeDistance
             THEN (IF deltaY > 0 THEN "down" ELSE "up")
             ELSE ""

\* lines 392-399: keyToDirection[event.key], "" when the key is not in the table
keyToDirection(key) ==
    CASE key = "ArrowUp" -> "up"
      [] key = "ArrowDown" -> "down"
      [] key = "ArrowLeft" -> "left"
      [] key = "ArrowRight" -> "right"
      [] OTHER -> ""

----------------------------------------------------------------------------
(* Inputs *)

\* the two results of Math.random() in one spawn, in hundredths: the first
\* picks the cell, the second the value
Random == {<<0, 0>>, <<95, 95>>}
\* values of localStorage.getItem('highScore') at construction
StoredHighScores == {0, 4}
\* keys pressed
Keys == {"ArrowUp", "ArrowDown", "ArrowLeft", "ArrowRight", "Enter"}
\* horizontal and vertical extent of a swipe
SwipeDeltas == {-60, 0, 60}
\* direction tokens handed to calculateMoves
Tokens == Directions \cup {"diagonal"}
\* tile values on input boards
TileValues == {2, 4}

----------------------------------------------------------------------------
(* Records of what happened *)

NoPre == [active |-> FALSE, grid |-> 0, array |-> 0, cells |-> <<>>, score |-> 0]

\* the session's board and score on entry to a transition
Snapshot(s) ==
    [active |-> TRUE, grid |-> s.grid, array |-> s.heap.grids[s.grid].cells,
     cells |-> Cells(s), score |-> s.score]

NoRet == [call |-> "", arg |-> "", threw |-> FALSE, moves |-> <<>>, value |-> 0,
          flag |-> FALSE]

Event(op, busy) == [op |-> op, busy |-> busy]

\* the fields of the object become the next state; p is the transition record
\* kept.  The object is bound to t so that it is computed once
Commit(s, p) ==
    \E t \in {s} :
        /\ heap' = Collect(t.heap, {t.grid} \cup (IF p.active THEN {p.grid} ELSE {}))
        /\ grid' = t.grid
        /\ score' = t.score
        /\ highScore' = t.highScore
        /\ tiles' = t.tiles
        /\ pre' = p

----------------------------------------------------------------------------
(* The session: handlers and callbacks of Game2048 *)

\* the constructor, lines 30-50
Init ==
    \E hs \in StoredHighScores, r \in [1..2 -> Random] :
        LET n == newGrid([grids |-> <<>>, arrays |-> <<>>], GridSize)
            s == init([heap |-> n.heap, grid |-> n.ref, score |-> 0,
                       highScore |-> hs, tiles |-> {}], r)
        IN  /\ heap = Collect(s.heap, {s.grid})
            /\ grid = s.grid
            /\ score = s.score
            /\ highScore = s.highScore
            /\ tiles = s.tiles
            /\ isAnimating = FALSE
            /\ calls = <<>>
            /\ checks = 0
            /\ status = "none"
            /\ ret = NoRet
            /\ pre = NoPre
            /\ event = Event("constructor", FALSE)
            /\ nMoves = 0
            /\ nNewGames = 0

\* Game2048.move, lines 191-224, up to its first suspension on the animation:
\* the transition, then either the animation is requested or the call ends.
\* An error thrown by calculateMoves is caught and logged at lines 215-217
\* and the call ends through the finally block like one without moves
move(direction) ==
    IF moveBusy(isAnimating)
    THEN /\ event' = Event("move", TRUE)
         /\ UNCHANGED <<heap, grid, score, highScore, isAnimating, tiles, calls,
                        checks, status, ret, pre, nMoves, nNewGames>>
    ELSE /\ nMoves + nNewGames < MaxInputs
         /\ LET r == calculateMoves(This, direction)
                animate == ~r.threw /\ Len(r.moves) > 0
            IN  /\ Commit(r.session, IF animate THEN Snapshot(This) ELSE NoPre)
                /\ ret' = IF animate
                          THEN [NoRet EXCEPT !.call = "calculateMoves",
                                             !.arg = direction, !.moves = r.moves]
                          ELSE NoRet
                /\ calls' = IF animate
                            THEN Append(calls, [pc |-> "frame",
                                                updates |-> tileUpdates(r.moves, tiles)])
                            ELSE calls
                /\ isAnimating' = animate
         /\ event' = Event("move", FALSE)
         /\ nMoves' = nMoves + 1
         /\ UNCHANGED <<checks, status, nNewGames>>

\* Game2048.handleKeyPress, lines 391-404
KeyPress(key) ==
    IF keyToDirection(key) # ""
    THEN move(keyToDirection(key))
    ELSE UNCHANGED vars

\* the touchend handler, lines 78-93
TouchEnd(deltaX, deltaY) ==
    IF ~touchBusy(isAnimating) /\ swipeDirection(deltaX, deltaY) # ""
    THEN move(swipeDirection(deltaX, deltaY))
    ELSE UNCHANGED vars

\* the click handler of the new-game button, line 61
NewGame(r) ==
    /\ nMoves + nNewGames < MaxInputs
    /\ Commit(init(This, r), pre)
    /\ event' = Event("click", isAnimating)
    /\ nNewGames' = nNewGames + 1
    /\ UNCHANGED <<isAnimating, calls, checks, status, ret, nMoves>>

\* the animation frame of lines 353-378 for the oldest call waiting for one;
\* frames run in the order requested, so after every game-state check
AnimationFrame(i) ==
    /\ checks = 0
    /\ calls[i].pc = "frame"
    /\ \A j \in 1..(i - 1) : calls[j].pc # "frame"
    /\ tiles' = applyUpdates(tiles, calls[i].updates, 1)
    /\ calls' = [calls EXCEPT ![i].pc = "timer"]
    /\ event' = Event("frame", isAnimating)
    /\ UNCHANGED <<heap, grid, score, highScore, isAnimating, checks, status,
                   ret, pre, nMoves, nNewGames>>

\* faulty variant: move() ends without its finally block
AnimationDoneKeepsBusy(r) ==
    /\ calls # <<>>
    /\ calls[1].pc = "timer"
    /\ Commit(addNewTile(This, r), NoPre)
    /\ ret' = NoRet
    /\ calls' = Tail(calls)
    /\ checks' = checks + 1
    /\ event' = Event("timer", isAnimating)
    /\ UNCHANGED <<isAnimating, status, nMoves, nNewGames>>

\* the timer of line 377 resolves the animation and move() runs on,
\* lines 204-222: the spawn, the request of the game-state check, finally
AnimationDone(r) ==
    /\ calls # <<>>
    /\ calls[1].pc = "timer"
    /\ Commit(addNewTile(This, r), NoPre)
    /\ ret' = NoRet
    /\ calls' = Tail(calls)
    /\ checks' = checks + 1
    /\ isAnimating' = FALSE
    /\ event' = Event("timer", isAnimating)
    /\ UNCHANGED <<status, nMoves, nNewGames>>

\* the animation frame of lines 207-213
GameStateCheck ==
    /\ checks > 0
    /\ checks' = checks - 1
    /\ status' = IF isGameOver(This) THEN "over"
                 ELSE IF \E k \in DOMAIN Cells(This) : Cells(This)[k] = WinValue
                      THEN "win"
                      ELSE "playing"
    /\ event' = Event("check", isAnimating)
    /\ UNCHANGED <<heap, grid, score, highScore, isAnimating, tiles, calls,
                   ret, pre, nMoves, nNewGames>>

Next ==
    \/ \E key \in Keys : KeyPress(key)
    \/ \E deltaX \in SwipeDeltas, deltaY \in SwipeDeltas : TouchEnd(deltaX, deltaY)
    \/ \E r \in [1..2 -> Random] : NewGame(r)
    \/ \E i \in 1..Len(calls) : AnimationFrame(i)
    \/ \E r \in Random : AnimationDone(r)
    \/ GameStateCheck

Spec == Init /\ [][Next]_vars

\* the browser runs every animation frame requested (lines 207, 353) and
\* fires every timer set (line 377)
Fairness ==
    /\ WF_vars(\E i \in 1..Len(calls) : AnimationFrame(i))
    /\ WF_vars(\E r \in Random : AnimationDone(r))
    /\ WF_vars(GameStateCheck)

SpecFair == Spec /\ Fairness

----------------------------------------------------------------------------
(* The engine on its own: one call of calculateMoves or isGameOver on a    *)
(* session whose board is drawn from the input boards                      *)

Positions == 0..15

\* boards with at most MaxTiles tiles
TileSets == {S \in SUBSET Positions : Cardinality(S) <= MaxTiles}
SparseBoards ==
    UNION {{[k \in Positions |-> IF k \in S THEN f[k] ELSE 0] : f \in [S -> TileValues]}
           : S \in TileSets}

\* boards with one row or one column of any cells and nothing else
Lines ==
    {{4 * i + j : j \in 0..3} : i \in 0..3} \cup {{4 * j + i : j \in 0..3} : i \in 0..3}
LineBoards ==
    UNION {{[k \in Positions |-> IF k \in L THEN f[k] ELSE 0]
            : f \in [L -> {0, 2, 4, 8}]} : L \in Lines}

\* full boards: a 2/4 checkerboard with at most MaxHoles cells replaced by
\* an empty cell, a 2, a 4 or an 8
Checkerboards ==
    {[k \in Positions |-> IF ((k \div 4) + (k % 4)) % 2 = 0 THEN a ELSE 6 - a]
     : a \in {2, 4}}
HoleSets == {S \in SUBSET Positions : Cardinality(S) <= MaxHoles}
DenseBoards ==
    UNION {{[k \in Positions |-> IF k \in S THEN f[k] ELSE c[k]]
            : f \in [S -> {0, 2, 4, 8}], c \in Checkerboards} : S \in HoleSets}

\* a board at rest holds at least the two tiles of a new game
InputBoards ==
    {b \in SparseBoards \cup LineBoards \cup DenseBoards :
        Cardinality({k \in Positions : b[k] # 0}) >= 2}

\* a session at rest whose board has the cells b
StartOn(b) ==
    /\ heap = [grids |-> (1 :> [size |-> GridSize, cells |-> 1]),
               arrays |-> (1 :> b)]
    /\ grid = 1
    /\ score = 0
    /\ highScore = 0
    /\ tiles = {k \in Positions : b[k] # 0}
    /\ isAnimating = FALSE
    /\ calls = <<>>
    /\ checks = 0
    /\ status = "none"
    /\ ret = NoRet
    /\ pre = NoPre
    /\ event = Event("start", FALSE)
    /\ nMoves = 0
    /\ nNewGames = 0

InitEngine == \E b \in InputBoards : StartOn(b)

\* this.calculateMoves(token)
Transition(token) ==
    /\ event.op = "start"
    /\ LET r == calculateMoves(This, token)
       IN  /\ Commit(r.session, Snapshot(This))
           /\ ret' = [NoRet EXCEPT !.call = "calculateMoves", !.arg = token,
                                   !.threw = r.threw, !.moves = r.moves]
    /\ event' = Event("calculateMoves", FALSE)
    /\ UNCHANGED <<isAnimating, calls, checks, status, nMoves, nNewGames>>

\* this.isGameOver()
GameOver ==
    /\ event.op = "start"
    /\ ret' = [NoRet EXCEPT !.call = "isGameOver", !.flag = isGameOver(This)]
    /\ event' = Event("isGameOver", FALSE)
    /\ UNCHANGED <<heap, grid, score, highScore, isAnimating, tiles, calls,
                   checks, status, pre, nMoves, nNewGames>>

NextEngine ==
    \/ \E token \in Tokens : Transition(token)
    \/ GameOver

SpecEngine == InitEngine /\ [][NextEngine]_vars

\* the engine on every board of the three families, the board of a Grid as
\* constructed (no tile, line 97) and the boards with one tile (between the
\* two spawns of lines 101-102) included
AnyBoards == SparseBoards \cup LineBoards \cup DenseBoards

InitAnyBoard == \E b \in AnyBoards : StartOn(b)

SpecAnyBoard == InitAnyBoard /\ [][NextEngine]_vars

----------------------------------------------------------------------------
(* Grid on its own: one call of getCell or setCell on the board of a new   *)
(* game, with coordinates in and around the board                          *)

Coordinates == -1..GridSize

\* this.grid.getCell(row, col)
GetCell(row, col) ==
    /\ event.op = "constructor"
    /\ ret' = [NoRet EXCEPT !.call = "getCell", !.arg = <<row, col>>,
                            !.value = getCell(Deref(heap, grid), row, col)]
    /\ event' = Event("getCell", FALSE)
    /\ UNCHANGED <<heap, grid, score, highScore, isAnimating, tiles, calls,
                   checks, status, pre, nMoves, nNewGames>>

\* this.grid.setCell(row, col, value)
SetCell(row, col, value) ==
    /\ event.op = "constructor"
    /\ heap' = [heap EXCEPT !.arrays[heap.grids[grid].cells] =
                              setCell(Deref(heap, grid), row, col, value).cells]
    /\ pre' = Snapshot(This)
    /\ ret' = [NoRet EXCEPT !.call = "setCell", !.arg = <<row, col>>]
    /\ event' = Event("setCell", FALSE)
    /\ UNCHANGED <<grid, score, highScore, isAnimating, tiles, calls,
                   checks, status, nMoves, nNewGames>>

NextGrid ==
    \/ \E row \in Coordinates, col \in Coordinates : GetCell(row, col)
    \/ \E row \in Coordinates, col \in Coordinates, value \in TileValues :
           SetCell(row, col, value)

SpecGrid == Init /\ [][NextGrid]_vars

----------------------------------------------------------------------------
(* Properties of the transition *)

\* a call of calculateMoves has returned
TransitionDone == ret.call = "calculateMoves" /\ ~ret.threw

\* line i of a board, read from the edge the tiles move to
ReadLine(cells, direction, i) ==
    [j \in 1..4 |->
        CASE direction = "left" -> cells[4 * i + (j - 1)]
          [] direction = "right" -> cells[4 * i + (4 - j)]
          [] direction = "up" -> cells[4 * (j - 1) + i]
          [] direction = "down" -> cells[4 * (4 - j) + i]]

\* the standard collapse of a line: its tiles in order, equal neighbours
\* merged from the front, each tile in at most one merge, zeros behind
RECURSIVE MergePairs(_)
MergePairs(t) ==
    IF Len(t) < 2 THEN t
    ELSE IF t[1] = t[2]
         THEN <<2 * t[1]>> \o MergePairs(SubSeq(t, 3, Len(t)))
         ELSE <<t[1]>> \o MergePairs(Tail(t))

StandardCollapse(line) ==
    LET t == MergePairs(SelectSeq(line, LAMBDA v : v # 0))
    IN  [j \in 1..4 |-> IF j <= Len(t) THEN t[j] ELSE 0]

\* the board holds the given row as row i and nothing else
RowOnly(cells, i, row) ==
    \A k \in Positions : cells[k] = IF k \div 4 = i THEN row[(k % 4) + 1] ELSE 0

\* C1: after calculateMoves every line, read from the target edge, is the
\* standard collapse of the line before; a lone row [2,2,0,0] moved left
\* becomes [4,0,0,0] by exactly one move, a merge, with 4 added to the score,
\* and a lone row [2,0,2,2] becomes [4,2,0,0] with 4 added to the score
C1_StandardCollapse ==
    TransitionDone =>
        /\ \A i \in 0..3 :
              ReadLine(Cells(This), ret.arg, i)
                  = StandardCollapse(ReadLine(pre.cells, ret.arg, i))
        /\ \A i \in 0..3 :
              (ret.arg = "left" /\ RowOnly(pre.cells, i, <<2, 2, 0, 0>>)) =>
                  /\ RowOnly(Cells(This), i, <<4, 0, 0, 0>>)
                  /\ Len(ret.moves) = 1
                  /\ ret.moves[1].merge
                  /\ score - pre.score = 4
        /\ \A i \in 0..3 :
              (ret.arg = "left" /\ RowOnly(pre.cells, i, <<2, 0, 2, 2>>)) =>
                  /\ RowOnly(Cells(This), i, <<4, 2, 0, 0>>)
                  /\ score - pre.score = 4

C1_Witness ==
    /\ TransitionDone
    /\ ret.arg = "left"
    /\ RowOnly(pre.cells, 0, <<2, 0, 2, 2>>)
    /\ RowOnly(Cells(This), 0, <<4, 2, 0, 0>>)

\* C2: a transition that records no move leaves the session with the same
\* board object, the same cells and the same score
C2_NoMoveNoChange ==
    (TransitionDone /\ Len(ret.moves) = 0) =>
        /\ grid = pre.grid
        /\ Cells(This) = pre.cells
        /\ score = pre.score

C2_Witness ==
    /\ TransitionDone
    /\ Len(ret.moves) = 0
    /\ Cardinality({k \in Positions : pre.cells[k] # 0}) = 2

CountOf(cells, v) == Cardinality({k \in DOMAIN cells : cells[k] = v})

Merges(moves, v) ==
    Cardinality({i \in 1..Len(moves) : moves[i].merge /\ moves[i].value = v})

RECURSIVE SumFrom(_, _)
SumFrom(cells, k) == IF k > 15 THEN 0 ELSE cells[k] + SumFrom(cells, k + 1)

\* C3: when moves are recorded, the tiles after are the tiles before with
\* each merged pair {v, v} replaced by one tile 2v, one pair per merge move;
\* the sum of the cells is unchanged and the number of tiles drops by the
\* number of merge moves
C3_Conservation ==
    (TransitionDone /\ Len(ret.moves) > 0) =>
        LET before == pre.cells
            after == Cells(This)
            seen == {before[k] : k \in Positions} \cup {after[k] : k \in Positions}
            values == (seen \cup {2 * v : v \in seen}) \ {0}
        IN  /\ \A v \in values :
                  CountOf(after, v)
                      = CountOf(before, v) - 2 * Merges(ret.moves, 2 * v)
                                           + Merges(ret.moves, v)
            /\ SumFrom(after, 0) = SumFrom(before, 0)
            /\ Cardinality(Positions) - CountOf(after, 0)
                  = Cardinality(Positions) - CountOf(before, 0)
                    - Cardinality({i \in 1..Len(ret.moves) : ret.moves[i].merge})

C3_Witness ==
    /\ TransitionDone
    /\ \E i, j \in 1..Len(ret.moves) : ret.moves[i].merge /\ ~ret.moves[j].merge

\* C4: in one transition no cell is the destination of two merge moves,
\* and no later move starts from or merges into the destination of a merge
C4_SingleMerge ==
    TransitionDone =>
        \A i \in 1..Len(ret.moves) :
            ret.moves[i].merge =>
                \A j \in 1..Len(ret.moves) :
                    /\ (j # i /\ ret.moves[j].merge) => ret.moves[j].to # ret.moves[i].to
                    /\ j > i => ret.moves[j].from # ret.moves[i].to

C4_Witness ==
    /\ TransitionDone
    /\ ret.arg = "left"
    /\ RowOnly(pre.cells, 0, <<2, 2, 4, 0>>)
    /\ RowOnly(Cells(This), 0, <<4, 4, 0, 0>>)

MirrorColumns(cells) == [k \in Positions |-> cells[4 * (k \div 4) + (3 - (k % 4))]]

MirrorRows(cells) == [k \in Positions |-> cells[4 * (3 - (k \div 4)) + (k % 4)]]

\* a session whose board has the given cells
SessionWith(cells, sc) ==
    [heap |-> [grids |-> (1 :> [size |-> GridSize, cells |-> 1]),
               arrays |-> (1 :> cells)],
     grid |-> 1, score |-> sc, highScore |-> sc, tiles |-> {}]

\* C5: right on the column mirror of a board gives the column mirror of left
\* on the board, with the same score delta; down on the row mirror gives the
\* row mirror of up on the board, with the same score delta
C5_DirectionSymmetry ==
    TransitionDone =>
        /\ ret.arg = "left" =>
              LET m == calculateMoves(SessionWith(MirrorColumns(pre.cells), pre.score),
                                      "right")
              IN  /\ Cells(m.session) = MirrorColumns(Cells(This))
                  /\ m.session.score - pre.score = score - pre.score
        /\ ret.arg = "up" =>
              LET m == calculateMoves(SessionWith(MirrorRows(pre.cells), pre.score),
                                      "down")
              IN  /\ Cells(m.session) = MirrorRows(Cells(This))
                  /\ m.session.score - pre.score = score - pre.score

C5_Witness ==
    /\ TransitionDone
    /\ ret.arg = "left"
    /\ RowOnly(pre.cells, 1, <<0, 2, 2, 2>>)
    /\ RowOnly(Cells(This), 1, <<4, 2, 0, 0>>)

\* C6: isGameOver is false on a board with an empty cell, and true on a full
\* board where no cell equals its right or its bottom neighbour
C6_TerminalCorrectness ==
    ret.call = "isGameOver" =>
        LET c == Cells(This)
        IN  /\ (\E k \in Positions : c[k] = 0) => ~ret.flag
            /\ ( /\ \A k \in Positions : c[k] # 0
                 /\ \A k \in Positions :
                       /\ k % 4 < 3 => c[k] # c[k + 1]
                       /\ k < 12 => c[k] # c[k + 4] ) => ret.flag

C6_Witness ==
    /\ ret.call = "isGameOver"
    /\ ret.flag
    /\ Cells(This) \in Checkerboards

\* C7: the Grid object that was the board when calculateMoves was entered
\* has the same cells afterwards, and when moves are recorded the new board
\* is another object with another array of cells
C7_InputNotMutated ==
    TransitionDone =>
        /\ heap.arrays[heap.grids[pre.grid].cells] = pre.cells
        /\ heap.grids[pre.grid].cells = pre.array
        /\ Len(ret.moves) > 0 =>
              /\ grid # pre.grid
              /\ heap.grids[grid].cells # heap.grids[pre.grid].cells

C7_Witness ==
    /\ TransitionDone
    /\ Len(ret.moves) > 0
    /\ grid # pre.grid
    /\ Cells(This) # pre.cells
    /\ heap.arrays[heap.grids[pre.grid].cells] = pre.cells

\* the latest call was an access to a cell outside the board
OutOfRangeAccess ==
    /\ ret.call \in {"getCell", "setCell"}
    /\ \/ ret.arg[1] < 0 \/ ret.arg[1] >= GridSize
       \/ ret.arg[2] < 0 \/ ret.arg[2] >= GridSize

\* C8: an access to a cell outside the board fails: it throws, returns no
\* cell's value and changes no cell
C8_OutOfRangeFails ==
    OutOfRangeAccess =>
        /\ ret.threw
        /\ ret.call = "setCell" => Cells(This) = pre.cells

\* the latest call was calculateMoves with a token that is no direction
InvalidDirection == ret.call = "calculateMoves" /\ ret.arg \notin Directions

\* C9: calculateMoves called with a token that is no direction throws to
\* its caller and leaves the board and the score as they were
C9_InvalidDirectionThrows ==
    InvalidDirection =>
        /\ ret.threw
        /\ grid = pre.grid
        /\ Cells(This) = pre.cells
        /\ score = pre.score

C9_Witness ==
    /\ InvalidDirection
    /\ ret.threw
    /\ \E k \in Positions : Cells(This)[k] # 0

\* C10: at most one move() is suspended between setting and clearing
\* isAnimating, and a move() called while isAnimating is set changes neither
\* the board, the score, the tile map nor what is in flight
C10_Serialized ==
    /\ [](Len(calls) <= 1 /\ (calls # <<>> => isAnimating))
    /\ [][(event'.op = "move" /\ isAnimating) =>
             UNCHANGED <<heap, grid, score, highScore, tiles, calls, checks,
                         isAnimating>>]_vars

C10_Witness ==
    /\ event.op = "move"
    /\ event.busy
    /\ Len(calls) = 1

----------------------------------------------------------------------------
(* Properties of the session *)

\* the step in which the move() in flight runs on after its animation
MoveEnds == event'.op = "timer" /\ calls' # calls

\* C11: while a move() is in flight no step other than the end of that
\* move() replaces the board, changes a cell or spawns a tile, so the spawn
\* of the move in flight lands on the board its transition produced
C11_NoInterleaving ==
    [][(isAnimating /\ ~MoveEnds) =>
          /\ grid' = grid
          /\ Cells(This)' = Cells(This)]_vars

\* the board the transition of the move in flight produced, from the record
\* of its input board and direction
PostTransition ==
    Cells(calculateMoves(SessionWith(pre.cells, pre.score), ret.arg).session)

\* C12: the end of a move() whose transition recorded moves comes after the
\* board was replaced, puts one tile of value 2 or 4 on a cell that was
\* empty in the board the transition produced, changes no other cell and
\* requests the game-state check; a move() whose transition records no move
\* spawns nothing and requests no check
C12_SpawnPolicy ==
    /\ [][MoveEnds =>
             /\ grid # pre.grid
             /\ \E k \in Positions :
                   /\ PostTransition[k] = 0
                   /\ Cells(This)'[k] \in {2, 4}
                   /\ \A j \in Positions \ {k} : Cells(This)'[j] = PostTransition[j]
             /\ checks' = checks + 1]_vars
    /\ [][(event'.op = "move" /\ ~isAnimating /\ ~isAnimating') =>
             /\ Cells(This)' = Cells(This)
             /\ UNCHANGED <<calls, checks>>]_vars

RECURSIVE PowerOfTwo(_)
PowerOfTwo(v) == v = 2 \/ (v > 2 /\ v % 2 = 0 /\ PowerOfTwo(v \div 2))

\* C13: in every state of a session the board has exactly the 16 cells
\* 0..15 and every cell is 0 or a power of two that is at least 2
C13_BoardInvariant ==
    /\ DOMAIN Cells(This) = Positions
    /\ ArrayLength(Cells(This)) = GridSize * GridSize
    /\ \A k \in Positions : Cells(This)[k] = 0 \/ PowerOfTwo(Cells(This)[k])

C13_Witness ==
    /\ event.op = "timer"
    /\ \E k \in Positions : Cells(This)[k] = 8
    /\ Cardinality({k \in Positions : Cells(This)[k] # 0}) = 2

----------------------------------------------------------------------------
(* Properties of the engine's parts *)

\* two coordinates on one line of movement
SameLine(a, b, direction) ==
    IF direction \in {"left", "right"} THEN a[1] = b[1] ELSE a[2] = b[2]

\* a is nearer than b to the edge the tiles move to
Nearer(a, b, direction) ==
    CASE direction = "left" -> a[2] < b[2]
      [] direction = "right" -> a[2] > b[2]
      [] direction = "up" -> a[1] < b[1]
      [] direction = "down" -> a[1] > b[1]

\* C14: the traversal order of a transition holds each of the 16
\* coordinates once, has the cell nearer the target edge first for any two
\* cells of one line of movement, and is row-major for left and up, reversed
\* row-major for down, and the stable sort of row-major by descending column
\* for right
C14_TraversalOrder ==
    TransitionDone =>
        LET order == getTraversalOrder(ret.arg)
        IN  /\ Len(order) = 16
            /\ \A row \in 0..3, col \in 0..3 :
                  Cardinality({i \in 1..Len(order) : order[i] = <<row, col>>}) = 1
            /\ \A i \in 1..Len(order), j \in 1..Len(order) :
                  (SameLine(order[i], order[j], ret.arg)
                      /\ Nearer(order[i], order[j], ret.arg)) => i < j
            /\ ret.arg \in {"left", "up"} =>
                  \A i \in 1..16 : order[i] = <<(i - 1) \div 4, (i - 1) % 4>>
            /\ ret.arg = "down" =>
                  \A i \in 1..16 : order[i] = <<(16 - i) \div 4, (16 - i) % 4>>
            /\ ret.arg = "right" =>
                  \A i \in 1..Len(order), j \in 1..Len(order) :
                      i < j =>
                          \/ order[i][2] > order[j][2]
                          \/ (order[i][2] = order[j][2] /\ order[i][1] < order[j][1])

C14_Witness ==
    /\ TransitionDone
    /\ ret.arg = "right"
    /\ RowOnly(pre.cells, 2, <<2, 2, 0, 2>>)
    /\ RowOnly(Cells(This), 2, <<0, 0, 2, 4>>)

\* the sum of the value fields of the merge moves from the i-th move on
RECURSIVE MergeSum(_, _)
MergeSum(moves, i) ==
    IF i > Len(moves) THEN 0
    ELSE (IF moves[i].merge THEN moves[i].value ELSE 0) + MergeSum(moves, i + 1)

\* the step in which calculateMoves runs: an accepted move() of the session,
\* or the call on the engine alone
TransitionStep ==
    \/ event'.op = "move" /\ ~moveBusy(isAnimating)
    \/ event'.op = "calculateMoves"

\* C15: a transition adds to the score exactly the sum of the value fields
\* of its merge moves, a new game sets the score to 0, and no other step
\* changes the score; so within a game the score never decreases and is the
\* sum of the merged values since the new game
C15_ScoreAccounting ==
    [][/\ TransitionStep => score' - score = MergeSum(ret'.moves, 1)
       /\ event'.op = "click" => score' = 0
       /\ (~TransitionStep /\ event'.op # "click") => score' = score
       /\ event'.op # "click" => score' >= score]_vars

C15_Witness ==
    /\ event.op = "move"
    /\ nNewGames = 1
    /\ score = 4
    /\ \E i, j \in 1..Len(ret.moves) :
          /\ ret.moves[i].merge
          /\ ret.moves[i].value = 4
          /\ ~ret.moves[j].merge

\* cell b is the neighbour of cell a in the direction of movement
NeighbourTowards(a, b, direction) ==
    /\ a \in Positions
    /\ b \in Positions
    /\ CASE direction = "left" -> b = a - 1 /\ b \div 4 = a \div 4
         [] direction = "right" -> b = a + 1 /\ b \div 4 = a \div 4
         [] direction = "up" -> b = a - 4
         [] direction = "down" -> b = a + 4

\* the board after replaying the moves from the i-th on: each move clears
\* its source and sets its destination to its value; <<>> when a move finds
\* its source empty, or its destination neither empty (no merge) nor
\* holding half its value (merge)
RECURSIVE Replay(_, _, _)
Replay(cells, moves, i) ==
    IF i > Len(moves) THEN cells
    ELSE LET m == moves[i]
         IN  IF /\ cells[m.from] # 0
                /\ IF m.merge THEN 2 * cells[m.to] = m.value ELSE cells[m.to] = 0
             THEN Replay([cells EXCEPT ![m.from] = 0, ![m.to] = m.value], moves, i + 1)
             ELSE <<>>

\* C16: every recorded move goes from a cell to its neighbour in the
\* direction of movement, and replaying the moves in order on the input
\* board gives the board after the transition
C16_MovesFaithful ==
    TransitionDone =>
        /\ \A i \in 1..Len(ret.moves) :
              NeighbourTowards(ret.moves[i].from, ret.moves[i].to, ret.arg)
        /\ Replay(pre.cells, ret.moves, 1) = Cells(This)

C16_Witness ==
    /\ TransitionDone
    /\ \E i, j \in 1..Len(ret.moves) :
          /\ i < j
          /\ ~ret.moves[i].merge
          /\ ret.moves[j].from = ret.moves[i].to
          /\ ret.moves[j].merge
    /\ Replay(pre.cells, ret.moves, 1) = Cells(This)

\* calculateMoves records no move on the session's board in any direction
NoMovePossible ==
    \A direction \in Directions : Len(calculateMoves(This, direction).moves) = 0

\* C17 as stated: on every board isGameOver returns true if and only if
\* calculateMoves records no move in each of the four directions
C17_LossCheckAgrees ==
    ret.call = "isGameOver" => (ret.flag <=> NoMovePossible)

\* C17 as amended: on every board with at least one tile isGameOver returns
\* true if and only if calculateMoves records no move in each of the four
\* directions; on the board without tiles it returns false
C17_LossCheckAgreesWithTiles ==
    ret.call = "isGameOver" =>
        IF \E k \in Positions : Cells(This)[k] # 0
        THEN ret.flag <=> NoMovePossible
        ELSE ~ret.flag

C17_Witness ==
    /\ ret.call = "isGameOver"
    /\ ret.flag
    /\ NoMovePossible
    /\ \E k \in Positions : Cells(This)[k] = 8

\* C18: whenever no move() is in flight, the keys of the tile map are the
\* positions of the nonzero cells of the board
C18_TileMapConsistent ==
    (~isAnimating /\ calls = <<>>) =>
        tiles = {k \in Positions : Cells(This)[k] # 0}

\* C19: when the animation frames and timers requested do run, every
\* move() that has set isAnimating clears it again
C19_BusyReleased == isAnimating ~> ~isAnimating

C19_Witness ==
    /\ event.op = "timer"
    /\ event.busy
    /\ ~isAnimating
    /\ calls = <<>>
    /\ nMoves = MaxInputs

\* C20: the high score is never below the score, no step lowers the high
\* score, and a new game sets the score to 0 and leaves the high score alone
C20_HighScore ==
    /\ [](highScore >= score)
    /\ [][/\ highScore' >= highScore
          /\ event'.op = "click" => (score' = 0 /\ highScore' = highScore)]_vars

C20_Witness ==
    /\ event.op = "click"
    /\ score = 0
    /\ highScore = 8

====
